---- MODULE Spec2Model ----
(***************************************************************************)
(* Model of the Morpheus assistant backend (arnesund/morpheus):            *)
(*   - notes_utils.py : classifier, task guard, Jaccard similarity, the    *)
(*     markdown note file and add_note's reject / merge / insert pass;     *)
(*   - agent.py       : MorpheusBot's SQLite store (init_db, query_db,     *)
(*     the query_task_database and write_notes_to_notebook tools) and the  *)
(*     conversation history cache (set_history / get_history);             *)
(*   - agent.py process_message, chainlit_app.py on_message: message       *)
(*     turns on the history cache, two handlers in flight.                 *)
(* Texts are TLA+ strings; a character is a string of length one.          *)
(***************************************************************************)
EXTENDS Integers, Sequences, FiniteSets, TLC

VARIABLES
    notebook,           \* the markdown note file: [exists, payload]
    clock,              \* the wall clock (datetime.now(), time.time()), in seconds
    call,               \* the last operation called, its arguments and what it returned
    history,            \* MorpheusBot.history
    history_timestamp,  \* MorpheusBot.history_timestamp: <<>> is None, <<t>> is t
    last_set,           \* when set_history last ran: <<>> never, <<t>> at t
    db,                 \* the SQLite file as committed on disk
    conn,               \* init_db's connection: its view of the database
    columns,            \* init_db's local `columns`
    boot,               \* where the bot process is: down, a step of init_db, or up
    boots,              \* how many times the bot has been started
    audit,              \* the audit log, one entry per query_db call
    turns               \* the message turns being handled: where each is, and its messages

vars == <<notebook, clock, call, history, history_timestamp, last_set,
          db, conn, columns, boot, boots, audit, turns>>

(***************************************************************************)
(* Bounds of the model.                                                    *)
(***************************************************************************)
MaxCalls == 4        \* calls of add_note in one behaviour
MaxQueries == 4      \* calls of the tools of the bot in one behaviour
MaxClock == 7204     \* the history cache is followed up to this time
MaxOffset == 3       \* one-second ticks are taken this far into an hour
MaxBoots == 2        \* completed runs of init_db in one behaviour
MaxTurns == 2        \* message turns in one behaviour
MaxTools == 1        \* tool calls of the agent in one turn

(***************************************************************************)
(* Characters and strings (Python str methods used by notes_utils).        *)
(***************************************************************************)
UpperLetters == "ABCDEFGHIJKLMNOPQRSTUVWXYZ"
LowerLetters == "abcdefghijklmnopqrstuvwxyz"
Digits == "0123456789"

Char(s, i) == SubSeq(s, i, i)

CharsOf(s) == {Char(s, i) : i \in 1..Len(s)}

UpperSet == CharsOf(UpperLetters)
LowerSet == CharsOf(LowerLetters)
DigitSet == CharsOf(Digits)

IndexIn(c, s) == CHOOSE i \in 1..Len(s) : Char(s, i) = c

\* str.lower() and str.upper() of one character
LowerMap == [c \in UpperSet |-> Char(LowerLetters, IndexIn(c, UpperLetters))]
UpperMap == [c \in LowerSet |-> Char(UpperLetters, IndexIn(c, LowerLetters))]

IsLetter(c) == c \in UpperSet \/ c \in LowerSet

\* \w of the re module: letters, digits and the underscore
IsWordChar(c) == IsLetter(c) \/ c \in DigitSet \/ c = "_"

\* what str.strip() removes
IsSpace(c) == c \in {" ", "\n", "\t"}

LowerChar(c) == IF c \in UpperSet THEN LowerMap[c] ELSE c

UpperChar(c) == IF c \in LowerSet THEN UpperMap[c] ELSE c

RECURSIVE Lower(_)
Lower(s) == IF s = "" THEN "" ELSE LowerChar(Head(s)) \o Lower(Tail(s))

RECURSIVE LStrip(_)
LStrip(s) == IF s # "" /\ IsSpace(Head(s)) THEN LStrip(Tail(s)) ELSE s

RECURSIVE RStrip(_)
RStrip(s) ==
    IF s # "" /\ IsSpace(Char(s, Len(s))) THEN RStrip(SubSeq(s, 1, Len(s) - 1)) ELSE s

Strip(s) == RStrip(LStrip(s))

\* str.title(): a letter is upper-cased after a non-letter, lower-cased after a letter
RECURSIVE TitleFrom(_, _)
TitleFrom(s, afterLetter) ==
    IF s = "" THEN ""
    ELSE LET c == Head(s)
         IN (IF afterLetter THEN LowerChar(c) ELSE UpperChar(c))
                \o TitleFrom(Tail(s), IsLetter(c))

Title(s) == TitleFrom(s, FALSE)

\* re.search of a literal pattern
Contains(s, pat) ==
    \E i \in 1..(Len(s) - Len(pat) + 1) : SubSeq(s, i, i + Len(pat) - 1) = pat

\* re.search of a.*b without DOTALL: a, then b later on the same line
ContainsThen(s, a, b) ==
    \E i \in 1..(Len(s) - Len(a) + 1) :
        /\ SubSeq(s, i, i + Len(a) - 1) = a
        /\ \E j \in (i + Len(a))..(Len(s) - Len(b) + 1) :
               /\ SubSeq(s, j, j + Len(b) - 1) = b
               /\ ~Contains(SubSeq(s, i + Len(a), j - 1), "\n")

\* re.search(p1|p2|..., text, re.IGNORECASE) for literal alternatives
SearchAny(text, pats) == LET low == Lower(text) IN \E p \in pats : Contains(low, p)

(***************************************************************************)
(* notes_utils.py                                                          *)
(***************************************************************************)
None == <<>>

\* Note.__init__: timestamp or datetime.now().isoformat()
Note(category, content, timestamp, now) ==
    [category |-> category,
     content |-> content,
     timestamp |-> IF timestamp = None THEN now ELSE timestamp[1]]

\* the label of ^\[([A-Za-z ]+)\](.+): the longest run of letters and spaces from i
RECURSIVE LabelEnd(_, _)
LabelEnd(s, i) ==
    IF i <= Len(s) /\ (IsLetter(Char(s, i)) \/ Char(s, i) = " ")
    THEN LabelEnd(s, i + 1)
    ELSE i - 1

\* re.match(r"^\[([A-Za-z ]+)\](.+)", text.strip(), re.DOTALL): <<>> when there
\* is no match, else <<group(1), group(2)>>
CategoryMatch(text) ==
    LET s == Strip(text)
        e == LabelEnd(s, 2)
    IN IF /\ Len(s) >= 1
          /\ Char(s, 1) = "["
          /\ e >= 2
          /\ e + 2 <= Len(s)
          /\ Char(s, e + 1) = "]"
       THEN <<SubSeq(s, 2, e), SubSeq(s, e + 2, Len(s))>>
       ELSE <<>>

PreferenceWords == {"prefer", "like", "dislike", "want", "need"}
ScheduleWords == {"schedule", "every", "daily", "weekly", "monthly"}

\* mutant of extract_category_from_text: the Schedule words are tried first
extract_category_schedule_first(text) ==
    LET m == CategoryMatch(text)
    IN IF m # <<>>
       THEN [category |-> Title(Strip(m[1])), content |-> Strip(m[2])]
       ELSE [category |-> IF SearchAny(text, ScheduleWords) THEN "Schedule"
                          ELSE IF SearchAny(text, PreferenceWords) THEN "Preference"
                          ELSE "Observation",
             content |-> Strip(text)]

\* mutant of extract_category_from_text: the keywords are tried before the label
extract_category_keywords_first(text) ==
    LET m == CategoryMatch(text)
    IN IF SearchAny(text, PreferenceWords)
       THEN [category |-> "Preference", content |-> Strip(text)]
       ELSE IF SearchAny(text, ScheduleWords)
       THEN [category |-> "Schedule", content |-> Strip(text)]
       ELSE IF m # <<>>
       THEN [category |-> Title(Strip(m[1])), content |-> Strip(m[2])]
       ELSE [category |-> "Observation", content |-> Strip(text)]

extract_category_from_text(text) ==
    LET m == CategoryMatch(text)
    IN IF m # <<>>
       THEN [category |-> Title(Strip(m[1])), content |-> Strip(m[2])]
       ELSE [category |-> IF SearchAny(text, PreferenceWords) THEN "Preference"
                          ELSE IF SearchAny(text, ScheduleWords) THEN "Schedule"
                          ELSE "Observation",
             content |-> Strip(text)]

\* the task_keywords that are literals once [d]? and [ed]? are expanded
TaskLiterals ==
    {"complete task", "completed task",
     "finish task", "finishe task", "finishd task",
     "due date", "deadline", "todo", "to-do", "to do"}

\* the task_keywords with .* in them
TaskPairs ==
    {<<"task", "done">>, <<"added", "task">>, <<"created", "task">>,
     <<"marked", "complete">>}

is_task_related(text) ==
    \/ SearchAny(text, TaskLiterals)
    \/ LET low == Lower(text) IN \E p \in TaskPairs : ContainsThen(low, p[1], p[2])

\* set(re.findall(r"\b\w+\b", s)): the maximal runs of word characters
RECURSIVE TokensFrom(_, _)
TokensFrom(s, cur) ==
    LET done == IF cur = "" THEN {} ELSE {cur}
    IN IF s = "" THEN done
       ELSE IF IsWordChar(Head(s)) THEN TokensFrom(Tail(s), cur \o Head(s))
       ELSE done \cup TokensFrom(Tail(s), "")

Tokens(s) == LET low == Lower(s) IN TokensFrom(low, "")

\* mutant of calculate_similarity: the share of text1's tokens found in text2
calculate_overlap(text1, text2) ==
    LET tokens1 == Tokens(text1)
        tokens2 == Tokens(text2)
    IN IF tokens1 = {} THEN <<0, 1>>
       ELSE <<Cardinality(tokens1 \cap tokens2), Cardinality(tokens1)>>

\* The quotient intersection / union as the pair <<numerator, denominator>>;
\* 0 (the pair <<0, 1>>) when the union is empty.
calculate_similarity(text1, text2) ==
    LET tokens1 == Tokens(text1)
        tokens2 == Tokens(text2)
        intersection == Cardinality(tokens1 \cap tokens2)
        union == Cardinality(tokens1 \cup tokens2)
    IN IF union = 0 THEN <<0, 1>> ELSE <<intersection, union>>

\* mutant of Exceeds: >= for >
ExceedsOrEqual(similarity, num, den) == similarity[1] * den >= num * similarity[2]

\* similarity > num/den, for the thresholds 0.8 = 8/10 and 0.5 = 5/10
Exceeds(similarity, num, den) == similarity[1] * den > num * similarity[2]

\* The note file: whether it exists, the notes of its embedded payload, and
\* whether open(filepath, "r") and open(filepath, "w") succeed.
NoFile == [exists |-> FALSE, payload |-> <<>>, readable |-> TRUE, writable |-> TRUE]

\* The first " -->" of the file ends what load_notes takes for the payload, so
\* json.loads gets a cut string whenever a saved field holds " -->" itself.
PayloadParses(payload) ==
    \A i \in 1..Len(payload) :
        /\ ~Contains(payload[i].category, " -->")
        /\ ~Contains(payload[i].content, " -->")

\* Note.from_dict
from_dict(data, now) == Note(data.category, data.content, <<data.timestamp>>, now)

\* load_notes of a file that save_notes wrote (or of no file): the notes of the
\* embedded payload, and [] when open or json.loads raises
load_notes(file, now) ==
    IF ~file.exists THEN <<>>
    ELSE IF file.readable /\ PayloadParses(file.payload)
         THEN [i \in 1..Len(file.payload) |-> from_dict(file.payload[i], now)]
         ELSE <<>>

\* Note.to_dict
to_dict(note) ==
    [category |-> note.category, content |-> note.content, timestamp |-> note.timestamp]

\* save_notes(notes, filepath): the file afterwards and the returned bool; when
\* open raises, the file is as it was and False is returned
save_notes(notes, file) ==
    IF file.writable
    THEN [file |-> [file EXCEPT !.exists = TRUE,
                                !.payload = [i \in 1..Len(notes) |-> to_dict(notes[i])]],
          ok |-> TRUE]
    ELSE [file |-> file, ok |-> FALSE]

MsgTaskRelated ==
    "Note appears to be task-related and should be stored in the task database instead."
MsgDuplicate == "Note is nearly identical to an existing note and was not added."
MsgMerged == "Note was merged with a similar existing note."
MsgAdded(category) == "Note added to category: " \o category

\* add_note's loop from index i on: the first note that returns, and how
RECURSIVE FirstMatch(_, _, _)
FirstMatch(notes, i, new_note) ==
    IF i > Len(notes) THEN [kind |-> "insert", index |-> 0]
    ELSE LET similarity == calculate_similarity(notes[i].content, new_note.content)
         IN IF Exceeds(similarity, 8, 10) THEN [kind |-> "reject", index |-> i]
            ELSE IF Exceeds(similarity, 5, 10) /\ notes[i].category = new_note.category
                 THEN [kind |-> "merge", index |-> i]
                 ELSE FirstMatch(notes, i + 1, new_note)

\* mutant of add_note: the task test comes after the file was loaded and saved
add_note_rewrites(file, text, now) ==
    LET ec == extract_category_from_text(text)
        notes == load_notes(file, now)
    IN IF is_task_related(text)
       THEN [notebook |-> save_notes(notes, file).file, ok |-> FALSE,
             msg |-> MsgTaskRelated]
       ELSE [notebook |-> save_notes(Append(notes, Note(ec.category, ec.content, None, now)),
                                     file).file,
             ok |-> TRUE, msg |-> MsgAdded(ec.category)]

\* add_note(filepath, text) at time now: the file afterwards and the returned pair
add_note(file, text, now) ==
    IF is_task_related(text)
    THEN [notebook |-> file, ok |-> FALSE, msg |-> MsgTaskRelated]
    ELSE LET ec == extract_category_from_text(text)
             new_note == Note(ec.category, ec.content, None, now)
             notes == load_notes(file, now)
             m == FirstMatch(notes, 1, new_note)
         IN CASE m.kind = "reject" ->
                    [notebook |-> file, ok |-> FALSE, msg |-> MsgDuplicate]
              [] m.kind = "merge" ->
                    LET note == notes[m.index]
                        combined_content ==
                            note.content \o "\n\nAdditionally: " \o new_note.content
                        merged == Note(note.category, combined_content,
                                       <<note.timestamp>>, now)
                    IN [notebook |-> save_notes([notes EXCEPT ![m.index] = merged],
                                                file).file,
                        ok |-> TRUE, msg |-> MsgMerged]
              [] OTHER ->
                    [notebook |-> save_notes(Append(notes, new_note), file).file,
                     ok |-> TRUE, msg |-> MsgAdded(ec.category)]

(***************************************************************************)
(* agent.py: the SQLite store.  A cell is <<>> for NULL and <<v>> for the  *)
(* value v.  A tasks row is a function from the table's columns to cells.  *)
(***************************************************************************)
NULL == <<>>

BaseColumns == <<"id", "description", "time_added", "time_complete">>
NewColumns == <<"due", "tags", "recurrence", "points">>

Range(f) == {f[i] : i \in DOMAIN f}

\* the DEFAULT of a column of tasks (id is assigned, time_complete has none)
Default(c) ==
    IF c = "points" THEN <<1>>
    ELSE IF c \in {"due", "tags", "recurrence"} THEN <<"">>
    ELSE NULL

\* a database file that does not exist yet (sqlite3.connect creates it empty)
EmptyDb ==
    [tables |-> {}, task_columns |-> <<>>, tasks |-> <<>>, task_seq |-> 0,
     notes |-> <<>>, note_seq |-> 0]

\* mutant of CreateTasks: CREATE TABLE without the IF NOT EXISTS guard, after
\* dropping what is there
CreateTasksAnew(d) ==
    [d EXCEPT !.tables = @ \cup {"tasks"},
              !.task_columns = <<"id", "description", "time_added", "time_complete",
                                 "due", "tags", "recurrence", "points">>,
              !.tasks = <<>>]

\* CREATE TABLE IF NOT EXISTS tasks (...)
CreateTasks(d) ==
    IF "tasks" \in d.tables THEN d
    ELSE [d EXCEPT !.tables = @ \cup {"tasks"},
                   !.task_columns = BaseColumns \o NewColumns,
                   !.tasks = <<>>]

\* CREATE TABLE IF NOT EXISTS notes (...)
CreateNotes(d) ==
    IF "notes" \in d.tables THEN d
    ELSE [d EXCEPT !.tables = @ \cup {"notes"}, !.notes = <<>>]

\* ALTER TABLE tasks ADD COLUMN c ... DEFAULT ...: every row gets the default
AddColumn(d, c) ==
    [d EXCEPT !.task_columns = Append(@, c),
              !.tasks = [i \in DOMAIN @ |->
                            [x \in (DOMAIN @[i]) \cup {c} |->
                                IF x = c THEN Default(c) ELSE @[i][x]]]]

SqlInsertTask == "INSERT INTO tasks (description, time_added) VALUES (?, ?)"
SqlInsertTaskDue ==
    "INSERT INTO tasks (description, time_added, due, tags) VALUES (?, ?, ?, ?)"
SqlCompleteTask == "UPDATE tasks SET time_complete = ? WHERE id = ?"
SqlPendingTasks ==
    "SELECT id, description, time_added, due, tags, recurrence FROM tasks WHERE time_complete IS NULL ORDER BY time_added DESC"
SqlInsertNote == "INSERT INTO notes (content, category, timestamp) VALUES (?, ?, ?)"
SqlInvalid == "INVALID SQL QUERY"
SqlTwoStatements == "SELECT 1; SELECT 2"

\* the exception classes that derive from sqlite3.Error
SqliteErrors ==
    {"sqlite3.OperationalError", "sqlite3.IntegrityError", "sqlite3.ProgrammingError"}

Raise(d, class, message) ==
    [db |-> d, rows |-> <<>>, error |-> <<[class |-> class, message |-> message]>>]

Return(d, rows) == [db |-> d, rows |-> rows, error |-> None]

\* rows sorted by the cell of column c, descending (ORDER BY c DESC); ties keep
\* the table's order
RECURSIVE SortDesc(_, _)
SortDesc(rows, c) ==
    IF rows = <<>> THEN <<>>
    ELSE LET top == CHOOSE i \in DOMAIN rows :
                       /\ \A j \in DOMAIN rows : rows[j][c][1] <= rows[i][c][1]
                       /\ \A j \in 1..(i - 1) : rows[j][c][1] < rows[i][c][1]
             rest == [k \in 1..(Len(rows) - 1) |->
                         IF k < top THEN rows[k] ELSE rows[k + 1]]
         IN <<rows[top]>> \o SortDesc(rest, c)

\* mutant of PendingRows: no WHERE clause
AllRows(rows) == rows

\* the rows WHERE time_complete IS NULL, in the table's order
RECURSIVE PendingRows(_)
PendingRows(rows) ==
    IF rows = <<>> THEN <<>>
    ELSE (IF Head(rows)["time_complete"] = NULL THEN <<Head(rows)>> ELSE <<>>)
             \o PendingRows(Tail(rows))

\* timedelta(days=1), in seconds
Day == 86400

\* a timestamp text that is not ISO-8601, such as 'yesterday': as texts, it sorts
\* above every ISO-8601 timestamp
NotIso == 2000000000

\* " AND ".join(where_clauses)
RECURSIVE JoinAnd(_)
JoinAnd(cs) == IF Len(cs) = 1 THEN cs[1] ELSE cs[1] \o " AND " \o JoinAnd(Tail(cs))

\* the query text that the note readers build
ReadQuery(byCategory, byContent, bySince) ==
    "SELECT content, category, timestamp FROM notes"
        \o (IF byCategory \/ byContent \/ bySince
            THEN " WHERE " \o JoinAnd((IF byCategory THEN <<"category = ?">> ELSE <<>>)
                                          \o (IF byContent THEN <<"content LIKE ?">> ELSE <<>>)
                                          \o (IF bySince THEN <<"timestamp >= ?">> ELSE <<>>))
            ELSE "")
        \o " ORDER BY timestamp DESC"

ReadFlags == BOOLEAN \X BOOLEAN \X BOOLEAN

ReadQueries == {ReadQuery(f[1], f[2], f[3]) : f \in ReadFlags}

\* the clauses of a query text
FlagsOf == [q \in ReadQueries |-> CHOOSE g \in ReadFlags : ReadQuery(g[1], g[2], g[3]) = q]

\* SQLite's LIKE: % is any run of characters, _ any one character, and ASCII
\* letters match in either case
RECURSIVE Like(_, _)
Like(pattern, text) ==
    IF pattern = "" THEN text = ""
    ELSE LET c == Char(pattern, 1)
             rest == SubSeq(pattern, 2, Len(pattern))
         IN IF c = "%"
            THEN Like(rest, text)
                     \/ (text # "" /\ Like(pattern, SubSeq(text, 2, Len(text))))
            ELSE /\ text # ""
                 /\ (c = "_" \/ LowerChar(c) = LowerChar(Char(text, 1)))
                 /\ Like(rest, SubSeq(text, 2, Len(text)))

\* mutant of SortNotesDesc: no ORDER BY
NotesUnsorted(rows) == rows

\* notes rows ORDER BY timestamp DESC; ties keep the table's order
RECURSIVE SortNotesDesc(_)
SortNotesDesc(rows) ==
    IF rows = <<>> THEN <<>>
    ELSE LET top == CHOOSE i \in DOMAIN rows :
                       /\ \A j \in DOMAIN rows : rows[j].timestamp <= rows[i].timestamp
                       /\ \A j \in 1..(i - 1) : rows[j].timestamp < rows[i].timestamp
             rest == [k \in 1..(Len(rows) - 1) |->
                         IF k < top THEN rows[k] ELSE rows[k + 1]]
         IN <<rows[top]>> \o SortNotesDesc(rest)

\* SELECT content, category, timestamp FROM notes WHERE ... ORDER BY timestamp
\* DESC: params holds one value for each clause of the query, in order
SelectNotes(d, query, params) ==
    LET f == FlagsOf[query]
        at(k) == Cardinality({j \in 1..k : f[j]})
        keep(row) ==
            /\ f[1] => row.category = params[at(1)][1]
            /\ f[2] => Like(params[at(2)][1], row.content)
            /\ f[3] => row.timestamp >= params[at(3)][1]
        rows == SortNotesDesc(SelectSeq(d.notes, keep))
    IN [i \in DOMAIN rows |->
           <<<<rows[i].content>>, <<rows[i].category>>, <<rows[i].timestamp>>>>]

\* cursor.execute(query, params) and conn.commit() on the database d
Execute(d, query, params) ==
    CASE query = SqlInsertTask ->
            IF Len(params) # 2
            THEN Raise(d, "sqlite3.ProgrammingError",
                       "Incorrect number of bindings supplied.")
            ELSE IF params[1] = NULL
            THEN Raise(d, "sqlite3.IntegrityError",
                       "NOT NULL constraint failed: tasks.description")
            ELSE IF params[2] = NULL
            THEN Raise(d, "sqlite3.IntegrityError",
                       "NOT NULL constraint failed: tasks.time_added")
            ELSE LET id == d.task_seq + 1
                     row == [c \in Range(d.task_columns) |->
                                CASE c = "id" -> <<id>>
                                  [] c = "description" -> params[1]
                                  [] c = "time_added" -> params[2]
                                  [] OTHER -> Default(c)]
                 IN Return([d EXCEPT !.tasks = Append(@, row), !.task_seq = id], <<>>)
      [] query = SqlInsertTaskDue ->
            IF Len(params) # 4
            THEN Raise(d, "sqlite3.ProgrammingError",
                       "Incorrect number of bindings supplied.")
            ELSE IF params[1] = NULL
            THEN Raise(d, "sqlite3.IntegrityError",
                       "NOT NULL constraint failed: tasks.description")
            ELSE IF params[2] = NULL
            THEN Raise(d, "sqlite3.IntegrityError",
                       "NOT NULL constraint failed: tasks.time_added")
            ELSE LET id == d.task_seq + 1
                     row == [c \in Range(d.task_columns) |->
                                CASE c = "id" -> <<id>>
                                  [] c = "description" -> params[1]
                                  [] c = "time_added" -> params[2]
                                  [] c = "due" -> params[3]
                                  [] c = "tags" -> params[4]
                                  [] OTHER -> Default(c)]
                 IN Return([d EXCEPT !.tasks = Append(@, row), !.task_seq = id], <<>>)
      [] query = SqlCompleteTask ->
            IF Len(params) # 2
            THEN Raise(d, "sqlite3.ProgrammingError",
                       "Incorrect number of bindings supplied.")
            ELSE Return([d EXCEPT !.tasks =
                            [i \in DOMAIN @ |->
                                IF @[i]["id"] = params[2]
                                THEN [@[i] EXCEPT !["time_complete"] = params[1]]
                                ELSE @[i]]], <<>>)
      [] query = SqlPendingTasks ->
            IF \E c \in {"due", "tags", "recurrence"} : c \notin Range(d.task_columns)
            THEN Raise(d, "sqlite3.OperationalError", "no such column")
            ELSE LET sorted == SortDesc(PendingRows(d.tasks), "time_added")
                 IN Return(d, [i \in DOMAIN sorted |->
                                  <<sorted[i]["id"], sorted[i]["description"],
                                    sorted[i]["time_added"], sorted[i]["due"],
                                    sorted[i]["tags"], sorted[i]["recurrence"]>>])
      [] query = SqlInsertNote ->
            IF Len(params) # 3
            THEN Raise(d, "sqlite3.ProgrammingError",
                       "Incorrect number of bindings supplied.")
            ELSE IF params[1] = NULL
            THEN Raise(d, "sqlite3.IntegrityError",
                       "NOT NULL constraint failed: notes.content")
            ELSE IF params[2] = NULL
            THEN Raise(d, "sqlite3.IntegrityError",
                       "NOT NULL constraint failed: notes.category")
            ELSE IF params[3] = NULL
            THEN Raise(d, "sqlite3.IntegrityError",
                       "NOT NULL constraint failed: notes.timestamp")
            ELSE LET id == d.note_seq + 1
                     row == [id |-> id, content |-> params[1][1],
                             category |-> params[2][1], timestamp |-> params[3][1]]
                 IN Return([d EXCEPT !.notes = Append(@, row), !.note_seq = id], <<>>)
      [] query \in ReadQueries ->
            IF Len(params) # Cardinality({j \in 1..3 : FlagsOf[query][j]})
            THEN Raise(d, "sqlite3.ProgrammingError",
                       "Incorrect number of bindings supplied.")
            ELSE Return(d, SelectNotes(d, query, params))
      [] query = SqlTwoStatements ->
            \* execute() refuses a second statement before the engine sees it
            Raise(d, "sqlite3.Warning", "You can only execute one statement at a time.")
      [] OTHER ->
            Raise(d, "sqlite3.OperationalError", "near \"INVALID\": syntax error")

\* log_query: one entry of the audit log
AuditEntry(query, params) == [query |-> query, params |-> params]

\* mutant of query_db: log_query after the execution, so not when it raises
query_db_log_last(log, d, query, params, openable) ==
    LET r == IF openable THEN Execute(d, query, params)
             ELSE Raise(d, "sqlite3.OperationalError", "unable to open database file")
    IN [audit |-> IF r.error = None THEN Append(log, AuditEntry(query, params)) ELSE log,
        db |-> r.db, rows |-> r.rows, error |-> r.error]

\* query_db(query, params): log_query first, then connect, execute, commit.
\* openable: whether sqlite3.connect can open the database file.  The result
\* has the fields audit, db, rows and error.
query_db(log, d, query, params, openable) ==
    [audit |-> Append(log, AuditEntry(query, params))]
        @@ (IF openable THEN Execute(d, query, params)
            ELSE Raise(d, "sqlite3.OperationalError", "unable to open database file"))

(***************************************************************************)
(* agent.py: the tools of the agent.                                       *)
(***************************************************************************)
\* str(n) of a natural number
RECURSIVE IntStr(_)
IntStr(n) == IF n < 10 THEN Char(Digits, n + 1) ELSE IntStr(n \div 10) \o Char(Digits, (n % 10) + 1)

\* repr of a fetched cell: None, an int, or a quoted str
CellRepr(cell, isInt) ==
    IF cell = NULL THEN "None"
    ELSE IF isInt THEN IntStr(cell[1])
    ELSE "'" \o cell[1] \o "'"

\* str(row) of a fetched row; ints are the cells of these positions
RECURSIVE RowItems(_, _, _)
RowItems(row, i, ints) ==
    IF i > Len(row) THEN ""
    ELSE CellRepr(row[i], i \in ints)
             \o (IF i < Len(row) THEN ", " ELSE IF Len(row) = 1 THEN "," ELSE "")
             \o RowItems(row, i + 1, ints)

RowStr(row, ints) == "(" \o RowItems(row, 1, ints) \o ")"

\* "\n".join(lines)
RECURSIVE Join(_)
Join(lines) ==
    IF lines = <<>> THEN ""
    ELSE IF Len(lines) = 1 THEN lines[1]
    ELSE lines[1] \o "\n" \o Join(Tail(lines))

\* the positions of the int cells in the rows a query returns (id, time_added)
IntPositions(query) == IF query = SqlPendingTasks THEN {1, 3} ELSE {}

\* mutant of Caught: except sqlite3.OperationalError
CaughtOperationalOnly(error) == error[1].class = "sqlite3.OperationalError"

\* except sqlite3.Error as e
Caught(error) == error[1].class \in SqliteErrors

\* mutant of QueryReturn: an empty result set is reported in words
QueryReturnSaysNoRows(r, query) ==
    IF r.error = None
    THEN [audit |-> r.audit, db |-> r.db, raised |-> None,
          ret |-> IF r.rows = <<>> THEN "No rows"
                  ELSE Join([i \in DOMAIN r.rows |->
                                RowStr(r.rows[i], IntPositions(query))])]
    ELSE IF Caught(r.error)
    THEN [audit |-> r.audit, db |-> r.db, raised |-> None,
          ret |-> "Error executing query: " \o r.error[1].message]
    ELSE [audit |-> r.audit, db |-> r.db, raised |-> <<r.error[1].class>>,
          ret |-> ""]

\* what query_task_database makes of the result r of query_db: the returned
\* string, or the exception that leaves the tool
QueryReturn(r, query) ==
    IF r.error = None
    THEN [audit |-> r.audit, db |-> r.db, raised |-> None,
          ret |-> Join([i \in DOMAIN r.rows |-> RowStr(r.rows[i], IntPositions(query))])]
    ELSE IF Caught(r.error)
    THEN [audit |-> r.audit, db |-> r.db, raised |-> None,
          ret |-> "Error executing query: " \o r.error[1].message]
    ELSE [audit |-> r.audit, db |-> r.db, raised |-> <<r.error[1].class>>,
          ret |-> ""]

\* query_task_database(query, params)
query_task_database(log, d, query, params, openable) ==
    QueryReturn(query_db(log, d, query, params, openable), query)

\* what fetch_pending_tasks makes of the string of the tool
PendingText(tasks) ==
    IF tasks = "" THEN ""
    ELSE "Here is a list of all pending tasks ordered by most recently added first:\n"
             \o "Columns are id, description, time_added, due, tags, recurrence\n"
             \o tasks

\* fetch_pending_tasks(): the text that primes the agent
fetch_pending_tasks(log, d, openable) ==
    [query_task_database(log, d, SqlPendingTasks, <<>>, openable)
        EXCEPT !.ret = PendingText(@)]

MsgEmpty == "Note content cannot be empty."

\* what write_notes_to_notebook makes of the result r of query_db
WriteReturn(r, category) ==
    IF r.error = None
    THEN [audit |-> r.audit, db |-> r.db, ret |-> MsgAdded(category)]
    ELSE [audit |-> r.audit, db |-> r.db,
          ret |-> "Error adding note: " \o r.error[1].message]

\* mutant of write_notes_to_notebook: the caller's timestamp is ignored
write_notes_stamped_now(log, d, text, category, timestamp, now, openable) ==
    IF Strip(text) = ""
    THEN [audit |-> log, db |-> d, ret |-> MsgEmpty]
    ELSE WriteReturn(query_db(log, d, SqlInsertNote,
                              <<<<text>>, <<category>>, <<now>>>>, openable), category)

\* write_notes_to_notebook(text, category, timestamp) at time now; timestamp is
\* None or <<t>>
write_notes_to_notebook(log, d, text, category, timestamp, now, openable) ==
    IF Strip(text) = ""
    THEN [audit |-> log, db |-> d, ret |-> MsgEmpty]
    ELSE WriteReturn(query_db(log, d, SqlInsertNote,
                              <<<<text>>, <<category>>,
                                IF timestamp = None THEN <<now>> ELSE timestamp>>,
                              openable), category)

\* the truth value of an optional str argument: None and "" are false
Given(arg) == arg # None /\ arg[1] # ""

\* the truth value of an optional int argument: None and 0 are false
GivenDays(arg) == arg # None /\ arg[1] # 0

\* whether datetime.fromisoformat accepts the stored timestamp
IsIso(timestamp) == timestamp # NotIso

\* datetime.fromisoformat(timestamp).strftime("%Y-%m-%d"): the day, without the
\* time of day
DateStr(timestamp) ==
    LET day == (timestamp - (timestamp % Day)) \div Day
    IN IF day < 0 THEN "-" \o IntStr(0 - day) ELSE IntStr(day)

\* the keys of the categories dict, in the order of their first row
RECURSIVE CategoriesOf(_, _)
CategoriesOf(rows, seen) ==
    IF rows = <<>> THEN <<>>
    ELSE LET category == Head(rows)[2][1]
         IN IF category \in seen THEN CategoriesOf(Tail(rows), seen)
            ELSE <<category>> \o CategoriesOf(Tail(rows), seen \cup {category})

\* the categories dict: for each category in order, its rows in order
GroupRows(rows) ==
    LET keys == CategoriesOf(rows, {})
        of(category) == LET in(row) == row[2][1] = category IN SelectSeq(rows, in)
    IN [k \in DOMAIN keys |-> [category |-> keys[k], items |-> of(keys[k])]]

\* the text of the groups: a "### category" heading and one line for each row
RECURSIVE FormatItems(_, _)
FormatItems(items, dated) ==
    IF items = <<>> THEN ""
    ELSE (IF dated
          THEN "- [" \o DateStr(Head(items)[3][1]) \o "] " \o Head(items)[1][1] \o "\n"
          ELSE "- " \o Head(items)[1][1] \o "\n")
             \o FormatItems(Tail(items), dated)

RECURSIVE FormatGroups(_, _)
FormatGroups(groups, dated) ==
    IF groups = <<>> THEN ""
    ELSE "### " \o Head(groups).category \o "\n"
             \o FormatItems(Head(groups).items, dated) \o "\n"
             \o FormatGroups(Tail(groups), dated)

MsgNoNotes == "No notes found matching the filter criteria."

\* what read_notes_from_notebook makes of the result r of query_db; heading is
\* the first line of the text
ReadReturn(r, heading) ==
    [audit |-> r.audit, db |-> r.db,
     ret |-> IF r.error # None
             THEN (IF Caught(r.error) THEN "Error reading notes: " ELSE "Error: ")
                      \o r.error[1].message
             ELSE IF r.rows = <<>> THEN MsgNoNotes
             ELSE IF \E i \in DOMAIN r.rows : ~IsIso(r.rows[i][3][1])
             THEN "Error: Invalid isoformat string: 'yesterday'"
             ELSE heading \o FormatGroups(GroupRows(r.rows), TRUE)]

\* read_notes_from_notebook(category, content_contains, days_ago) at time now;
\* each argument is None or <<value>>
read_notes_from_notebook(log, d, category, content_contains, days_ago, now, openable) ==
    ReadReturn(
        query_db(log, d,
                 ReadQuery(Given(category), Given(content_contains), GivenDays(days_ago)),
                 (IF Given(category) THEN <<category>> ELSE <<>>)
                     \o (IF Given(content_contains)
                         THEN <<<<"%" \o content_contains[1] \o "%">>>> ELSE <<>>)
                     \o (IF GivenDays(days_ago)
                         THEN <<<<now - days_ago[1] * Day>>>> ELSE <<>>),
                 openable),
        "Notes"
            \o (IF Given(category) THEN " in category '" \o category[1] \o "'" ELSE "")
            \o (IF Given(content_contains)
                THEN " containing '" \o content_contains[1] \o "'" ELSE "")
            \o (IF GivenDays(days_ago)
                THEN " from the last " \o IntStr(days_ago[1]) \o " days" ELSE "")
            \o ":\n\n")

\* what read_notes makes of the result r of query_db
PromptReturn(r) ==
    [audit |-> r.audit, db |-> r.db,
     raised |-> IF r.error # None /\ ~Caught(r.error)
                THEN <<r.error[1].class>> ELSE None,
     ret |-> IF r.error # None
             THEN (IF Caught(r.error)
                   THEN "Error reading notes: " \o r.error[1].message ELSE "")
             ELSE IF r.rows = <<>> THEN ""
             ELSE "Notes you've made so far, organized by category:\n\n"
                      \o FormatGroups(GroupRows(r.rows), FALSE)]

\* read_notes(): the notes that go into the system prompt
read_notes(log, d, openable) ==
    PromptReturn(query_db(log, d, ReadQuery(FALSE, FALSE, FALSE), <<>>, openable))

(***************************************************************************)
(* agent.py: the conversation history cache.                               *)
(***************************************************************************)
one_hour == 3600

\* the truth value of self.history_timestamp: None and 0.0 are false
Truthy(stamp) == stamp # None /\ stamp[1] # 0

\* mutant of Expired: a window of six hours
ExpiredSixHours(stamp, current_time) ==
    stamp # None /\ stamp[1] # 0 /\ current_time - stamp[1] > 6 * 3600

\* mutant of Expired: >= for >
ExpiredAtWindow(stamp, current_time) ==
    stamp # None /\ stamp[1] # 0 /\ current_time - stamp[1] >= 3600

\* get_history's test
Expired(stamp, current_time) == Truthy(stamp) /\ current_time - stamp[1] > one_hour

\* mutant of get_history: on expiry the stamp is cleared and the messages stay
get_history_drops_stamp(h, stamp, current_time) ==
    IF Expired(stamp, current_time)
    THEN [history |-> h, history_timestamp |-> None, ret |-> <<>>]
    ELSE [history |-> h, history_timestamp |-> stamp, ret |-> h]

\* mutant of get_history: a read that finds the history valid restamps it
get_history_touch(h, stamp, current_time) ==
    IF Expired(stamp, current_time)
    THEN [history |-> <<>>, history_timestamp |-> None, ret |-> <<>>]
    ELSE [history |-> h,
          history_timestamp |-> IF stamp = None THEN None ELSE <<current_time>>,
          ret |-> h]

\* get_history() at current_time: the fields afterwards and the returned list
get_history(h, stamp, current_time) ==
    IF Expired(stamp, current_time)
    THEN [history |-> <<>>, history_timestamp |-> None, ret |-> <<>>]
    ELSE [history |-> h, history_timestamp |-> stamp, ret |-> h]

\* mutant of set_history: the stamp is left as it was cleared
set_history_unstamped(h, now) == [history |-> h, history_timestamp |-> None]

\* set_history(history) at time now
set_history(h, now) == [history |-> h, history_timestamp |-> <<now>>]

(***************************************************************************)
(* agent.py process_message, chainlit_app.py on_message: a message turn.   *)
(* The handlers are coroutines of one event loop: a turn runs from its     *)
(* get_history() to the await of the agent run without a switch, and from  *)
(* the result of the run to its set_history(); while it awaits, the loop   *)
(* runs the tools of the agent and the handlers of other events.  The      *)
(* agent run works on its own copy of message_history.                     *)
(***************************************************************************)
\* the handlers that the event loop can have in flight at once
Turns == {1, 2}

\* a handler that is not in a turn; count is how many turns it has taken
IdleTurn == [pc |-> "idle", count |-> 0, message_history |-> <<>>, new_messages |-> <<>>]

\* how many turns have been started
TurnsTaken(ts) == ts[1].count + ts[2].count

\* the n-th message of a kind in the turns of handler t
Msg(kind, t, n) == kind \o IntStr(t) \o "." \o IntStr(n)

\* result.all_messages(): the history the run was given and what it added
all_messages(turn) == turn.message_history \o turn.new_messages

(***************************************************************************)
(* agent.py: init_db, one statement at a time.  boot is the statement that *)
(* runs next.  A DDL statement changes the connection's view at once; it   *)
(* is on disk at the latest when conn.commit() returns.                    *)
(***************************************************************************)
InitSteps ==
    {"create_tasks", "create_notes", "commit", "pragma",
     "due", "commit_due", "tags", "commit_tags",
     "recurrence", "commit_recurrence", "points", "commit_points", "close"}

\* mutant of AfterColumn: the points block is left out
AfterColumnNoPoints(c) ==
    CASE c = "due" -> "tags"
      [] c = "tags" -> "recurrence"
      [] c = "recurrence" -> "close"
      [] c = "points" -> "close"

\* the statement after the `if c not in columns` block of column c
AfterColumn(c) ==
    CASE c = "due" -> "tags"
      [] c = "tags" -> "recurrence"
      [] c = "recurrence" -> "points"
      [] c = "points" -> "close"

\* the tables as created by init_db on a new file
FreshDb == CreateNotes(CreateTasks(EmptyDb))

\* MorpheusBot(...) is constructed: init_db connects
Start ==
    /\ boot = "down"
    /\ boots < MaxBoots
    /\ boot' = "create_tasks"
    /\ conn' = db
    /\ columns' = <<>>
    /\ call' = [op |-> "init_db"]
    /\ UNCHANGED <<notebook, clock, history, history_timestamp, last_set, db, boots, audit, turns>>

InitCreateTasks ==
    /\ boot = "create_tasks"
    /\ conn' = CreateTasks(conn)
    /\ db' \in {db, conn'}
    /\ boot' = "create_notes"
    /\ UNCHANGED <<notebook, clock, call, history, history_timestamp, last_set,
                   columns, boots, audit, turns>>

InitCreateNotes ==
    /\ boot = "create_notes"
    /\ conn' = CreateNotes(conn)
    /\ db' \in {db, conn'}
    /\ boot' = "commit"
    /\ UNCHANGED <<notebook, clock, call, history, history_timestamp, last_set,
                   columns, boots, audit, turns>>

InitCommit ==
    /\ boot = "commit"
    /\ db' = conn
    /\ boot' = "pragma"
    /\ UNCHANGED <<notebook, clock, call, history, history_timestamp, last_set,
                   conn, columns, boots, audit, turns>>

\* PRAGMA table_info(tasks): columns = [row[1] for row in cursor.fetchall()]
InitPragma ==
    /\ boot = "pragma"
    /\ columns' = conn.task_columns
    /\ boot' = "due"
    /\ UNCHANGED <<notebook, clock, call, history, history_timestamp, last_set,
                   db, conn, boots, audit, turns>>

\* whether init_db adds column c, given its local `columns`
Missing(c, cols) == c \notin Range(cols)

\* if c not in columns: cursor.execute("ALTER TABLE tasks ADD COLUMN c ...")
InitAlter(c) ==
    /\ boot = c
    /\ IF Missing(c, columns)
       THEN /\ conn' = AddColumn(conn, c)
            /\ db' \in {db, conn'}
            /\ boot' = "commit_" \o c
       ELSE /\ UNCHANGED <<conn, db>>
            /\ boot' = AfterColumn(c)
    /\ UNCHANGED <<notebook, clock, call, history, history_timestamp, last_set,
                   columns, boots, audit, turns>>

\* conn.commit() after the ALTER TABLE of column c
InitCommitColumn(c) ==
    /\ boot = "commit_" \o c
    /\ db' = conn
    /\ boot' = AfterColumn(c)
    /\ UNCHANGED <<notebook, clock, call, history, history_timestamp, last_set,
                   conn, columns, boots, audit, turns>>

\* conn.close(): init_db has completed
InitClose ==
    /\ boot = "close"
    /\ boot' = "up"
    /\ boots' = boots + 1
    /\ conn' = EmptyDb
    /\ columns' = <<>>
    /\ UNCHANGED <<notebook, clock, call, history, history_timestamp, last_set, db, audit, turns>>

\* the process dies inside init_db: what was not committed is lost
Crash ==
    /\ boot \in InitSteps
    /\ boot' = "down"
    /\ conn' = EmptyDb
    /\ columns' = <<>>
    /\ call' = [op |-> "crash"]
    /\ UNCHANGED <<notebook, clock, history, history_timestamp, last_set, db, boots, audit, turns>>

\* the process exits
Stop ==
    /\ boot = "up"
    /\ boot' = "down"
    /\ call' = [op |-> "stop"]
    /\ UNCHANGED <<notebook, clock, history, history_timestamp, last_set,
                   db, conn, columns, boots, audit, turns>>

(***************************************************************************)
(* The operations as actions.  Every call takes one second of the clock.   *)
(***************************************************************************)
\* the file is as the call r left it, and call records the arguments c and
\* the returned pair
NoteStep(r, c) ==
    /\ notebook' = r.notebook
    /\ call' = c @@ [ok |-> r.ok, msg |-> r.msg]

\* the database and the audit log are as the call r left them, and call
\* records the arguments c and what r returned or raised
ToolStep(r, c) ==
    /\ audit' = r.audit
    /\ db' = r.db
    /\ call' = c @@ [k \in (DOMAIN r) \ {"audit", "db"} |-> r[k]]

AddNote(text) ==
    /\ clock <= MaxCalls
    /\ NoteStep(add_note(notebook, text, clock), [op |-> "add_note", text |-> text])
    /\ clock' = clock + 1
    /\ UNCHANGED <<history, history_timestamp, last_set, db, conn, columns, boot,
                   boots, audit, turns>>

\* the environment changes whether the note file can be read and written
SetAccess(readable, writable) ==
    /\ clock <= MaxCalls
    /\ <<readable, writable>> # <<notebook.readable, notebook.writable>>
    /\ notebook' = [notebook EXCEPT !.readable = readable, !.writable = writable]
    /\ call' = [op |-> "set_access"]
    /\ UNCHANGED <<clock, history, history_timestamp, last_set, db, conn, columns,
                   boot, boots, audit, turns>>

QueryTaskDatabase(query, params, openable) ==
    /\ boot = "up"
    /\ clock <= MaxQueries
    /\ ToolStep(query_task_database(audit, db, query, params, openable),
                [op |-> "query_task_database", query |-> query, params |-> params,
                 openable |-> openable])
    /\ clock' = clock + 1
    /\ UNCHANGED <<notebook, history, history_timestamp, last_set, conn, columns,
                   boot, boots, turns>>

WriteNotesToNotebook(text, category, timestamp) ==
    /\ boot = "up"
    /\ clock <= MaxQueries
    /\ ToolStep(write_notes_to_notebook(audit, db, text, category, timestamp, clock, TRUE),
                [op |-> "write_notes_to_notebook", text |-> text,
                 category |-> category, timestamp |-> timestamp])
    /\ clock' = clock + 1
    /\ UNCHANGED <<notebook, history, history_timestamp, last_set, conn, columns,
                   boot, boots, turns>>

FetchPendingTasks(openable) ==
    /\ boot = "up"
    /\ clock <= MaxQueries
    /\ ToolStep(fetch_pending_tasks(audit, db, openable),
                [op |-> "fetch_pending_tasks", openable |-> openable])
    /\ clock' = clock + 1
    /\ UNCHANGED <<notebook, history, history_timestamp, last_set, conn, columns,
                   boot, boots, turns>>

ReadNotesFromNotebook(category, content_contains, days_ago, openable) ==
    /\ boot = "up"
    /\ clock <= MaxQueries
    /\ ToolStep(read_notes_from_notebook(audit, db, category, content_contains,
                                         days_ago, clock, openable),
                [op |-> "read_notes_from_notebook", category |-> category,
                 content_contains |-> content_contains, days_ago |-> days_ago,
                 openable |-> openable])
    /\ clock' = clock + 1
    /\ UNCHANGED <<notebook, history, history_timestamp, last_set, conn, columns,
                   boot, boots, turns>>

ReadNotes(openable) ==
    /\ boot = "up"
    /\ clock <= MaxQueries
    /\ ToolStep(read_notes(audit, db, openable),
                [op |-> "read_notes", openable |-> openable])
    /\ clock' = clock + 1
    /\ UNCHANGED <<notebook, history, history_timestamp, last_set, conn, columns,
                   boot, boots, turns>>

SetHistory(h) ==
    /\ LET r == set_history(h, clock)
       IN /\ history' = r.history
          /\ history_timestamp' = r.history_timestamp
    /\ last_set' = <<clock>>
    /\ call' = [op |-> "set_history", arg |-> h]
    /\ UNCHANGED <<notebook, clock, db, conn, columns, boot, boots, audit, turns>>

GetHistory ==
    /\ LET r == get_history(history, history_timestamp, clock)
       IN /\ history' = r.history
          /\ history_timestamp' = r.history_timestamp
          /\ call' = [op |-> "get_history", ret |-> r.ret]
    /\ UNCHANGED <<notebook, clock, last_set, db, conn, columns, boot, boots, audit, turns>>

\* chainlit_app.clear_chat_callback
ClearChat ==
    /\ history' = <<>>
    /\ history_timestamp' = None
    /\ call' = [op |-> "clear_chat"]
    /\ UNCHANGED <<notebook, clock, last_set, db, conn, columns, boot, boots, audit, turns>>

\* time passes: d seconds
Tick(d) ==
    /\ clock + d <= MaxClock
    /\ d = 1 => clock % one_hour <= MaxOffset
    /\ clock' = clock + d
    /\ call' = [op |-> "tick"]
    /\ UNCHANGED <<notebook, history, history_timestamp, last_set, db, conn, columns,
                   boot, boots, audit, turns>>

\* bot.get_history() as the argument of agent.run, and the run starts on the
\* user's message
TurnStart(t) ==
    /\ boot = "up"
    /\ turns[t].pc = "idle"
    /\ TurnsTaken(turns) < MaxTurns
    /\ LET r == get_history(history, history_timestamp, clock)
       IN /\ history' = r.history
          /\ history_timestamp' = r.history_timestamp
          /\ turns' = [turns EXCEPT ![t] =
                          [pc |-> "running", count |-> @.count + 1,
                           message_history |-> r.ret,
                           new_messages |-> <<Msg("user", t, @.count + 1)>>]]
          /\ call' = [op |-> "turn_start", turn |-> t, ret |-> r.ret]
    /\ UNCHANGED <<notebook, clock, last_set, db, conn, columns, boot, boots, audit>>

\* the agent of a running turn calls the write_notes_to_notebook tool; the text
\* written stands in the run's messages
TurnTool(t) ==
    /\ turns[t].pc = "running"
    /\ Len(turns[t].new_messages) <= MaxTools
    /\ ToolStep(write_notes_to_notebook(audit, db, Msg("note", t, turns[t].count),
                                        "Observation", None, clock, TRUE),
                [op |-> "turn_tool", turn |-> t])
    /\ turns' = [turns EXCEPT ![t].new_messages = Append(@, Msg("note", t, turns[t].count))]
    /\ UNCHANGED <<notebook, clock, history, history_timestamp, last_set, conn, columns,
                   boot, boots>>

\* the run has returned: log_messages, then set_history(result.all_messages())
TurnComplete(t) ==
    /\ turns[t].pc = "running"
    /\ LET r == set_history(Append(all_messages(turns[t]), Msg("reply", t, turns[t].count)),
                            clock)
       IN /\ history' = r.history
          /\ history_timestamp' = r.history_timestamp
          /\ call' = [op |-> "turn_complete", turn |-> t, all_messages |-> r.history]
    /\ last_set' = <<clock>>
    /\ turns' = [turns EXCEPT ![t].pc = "idle", ![t].message_history = <<>>,
                              ![t].new_messages = <<>>]
    /\ UNCHANGED <<notebook, clock, db, conn, columns, boot, boots, audit>>

\* mutant of TurnAbort: the messages built so far are stored
TurnAbortStoresPartial(t) ==
    /\ turns[t].pc = "running"
    /\ history' = all_messages(turns[t])
    /\ call' = [op |-> "turn_abort", turn |-> t, new_messages |-> turns[t].new_messages]
    /\ turns' = [turns EXCEPT ![t].pc = "idle", ![t].message_history = <<>>,
                              ![t].new_messages = <<>>]
    /\ UNCHANGED <<notebook, clock, history_timestamp, last_set, db, conn, columns, boot,
                   boots, audit>>

\* the run or log_messages raises, or the handler is cancelled: the handler's
\* locals are dropped and set_history is not reached
TurnAbort(t) ==
    /\ turns[t].pc = "running"
    /\ call' = [op |-> "turn_abort", turn |-> t, new_messages |-> turns[t].new_messages]
    /\ turns' = [turns EXCEPT ![t].pc = "idle", ![t].message_history = <<>>,
                              ![t].new_messages = <<>>]
    /\ UNCHANGED <<notebook, clock, history, history_timestamp, last_set, db, conn,
                   columns, boot, boots, audit>>

\* calculate_similarity(text1, text2) is called
CalculateSimilarity(text1, text2) ==
    /\ call' = [op |-> "calculate_similarity", text1 |-> text1, text2 |-> text2,
                ret |-> calculate_similarity(text1, text2)]
    /\ UNCHANGED <<notebook, clock, history, history_timestamp, last_set, db, conn,
                   columns, boot, boots, audit, turns>>

\* extract_category_from_text(text) is called
ExtractCategory(text) ==
    /\ call' = [op |-> "extract_category_from_text", text |-> text]
                    @@ extract_category_from_text(text)
    /\ UNCHANGED <<notebook, clock, history, history_timestamp, last_set, db, conn,
                   columns, boot, boots, audit, turns>>

(***************************************************************************)
(* Inputs.                                                                 *)
(***************************************************************************)
\* texts with the same, overlapping, differently cased and no word tokens
SimilarityTexts ==
    {"", "!!!", "x", "x x", "a b c d", "A B C D", "a b c d e", "a, b; c",
     "hello world", "Hello, World!"}

\* texts with and without a leading label, with keywords of one or both
\* heuristics or of none
ClassifierTexts ==
    {"I prefer tea", "Weekly sync", "I like the weekly sync", "Plain fact",
     "  It is LIKELY to rain \n", "Monthly budget NEEDS review", "[Work2] every x",
     "x [Work] y", "[work] buy milk", "[to do list] I prefer x",
     "  [HOME]   weekly chores  ", "[ work ] x", "[ ] x", "[Work]"}

NoteTexts ==
    {"a b c d", "a b c d e", "[Work] a b c d e f",
     "Task completed: finish report", "todo a b c d", "x -->"}

\* texts without content or with a label of spaces
EdgeTexts == {"", "[ ] x"}

\* the texts added to a note file whose access changes
FileTexts == EdgeTexts \cup {"a b c d", "a b c d e", "todo a b c d"}

\* <<readable, writable>> of the note file
Accesses == {<<TRUE, TRUE>>, <<TRUE, FALSE>>, <<FALSE, FALSE>>}

WriteTexts == {"a b c d e", "Task completed: finish report", " "}
WriteCategories == {"Observation", "Preference"}
WriteTimestamps == {None, <<1>>}

\* <<query, params, whether the database file can be opened>>
Queries(now) ==
    {<<SqlInsertTask, <<<<"Pay rent">>, <<now>>>>, TRUE>>,
     <<SqlInsertTask, <<NULL, <<now>>>>, TRUE>>,
     <<SqlCompleteTask, <<<<now>>, <<1>>>>, TRUE>>,
     <<SqlPendingTasks, <<>>, TRUE>>,
     <<SqlPendingTasks, <<>>, FALSE>>,
     <<SqlInvalid, <<>>, TRUE>>,
     <<SqlTwoStatements, <<>>, TRUE>>}

\* the task scenario: add, complete, list
TaskQueries(now) ==
    {<<SqlInsertTaskDue, <<<<"Pay rent">>, <<now>>, <<"2025-01-01">>, <<"bills">>>>, TRUE>>,
     <<SqlInsertTask, <<<<"Call mom">>, <<now>>>>, TRUE>>,
     <<SqlCompleteTask, <<<<now>>, <<1>>>>, TRUE>>,
     <<SqlCompleteTask, <<<<now>>, <<2>>>>, TRUE>>,
     <<SqlPendingTasks, <<>>, TRUE>>}

\* the notes scenario: <<text, category, timestamp>> of the notes written, also
\* backdated by more than a day or with a timestamp that is no ISO-8601 text
NoteWrites ==
    {<<"User prefers morning meetings", "Preference", None>>,
     <<"User prefers morning meetings", "Preference", <<0 - 90000>>>>,
     <<"Morning run", "Schedule", None>>,
     <<"Morning run", "Schedule", <<0 - 90000>>>>,
     <<"Morning run", "Preference", <<NotIso>>>>}

\* <<category, content_contains, days_ago, whether the database can be opened>>
NoteReads ==
    {<<None, None, None, TRUE>>,
     <<<<"Preference">>, None, None, TRUE>>,
     <<None, <<"morning">>, None, TRUE>>,
     <<None, None, <<1>>, TRUE>>,
     <<<<"Preference">>, <<"morning">>, <<1>>, TRUE>>,
     <<None, None, None, FALSE>>}

Histories == {<<>>, <<"m1">>, <<"m1", "m2">>}

TickSteps == {1, one_hour}

\* between the steps of a turn: the idle window and a second pass
TurnTicks == {one_hour + 1}

\* a tasks row of an older store, with the columns that store has
LegacyRow(cols) ==
    [c \in Range(cols) |->
        CASE c = "id" -> <<1>>
          [] c = "description" -> <<"Old task">>
          [] c = "time_added" -> <<0>>
          [] OTHER -> IF c = "points" THEN <<5>> ELSE IF c = "time_complete" THEN NULL ELSE <<"kept">>]

\* the new columns in S, in the order of NewColumns
RECURSIVE Pick(_, _)
Pick(cols, S) ==
    IF cols = <<>> THEN <<>>
    ELSE (IF Head(cols) \in S THEN <<Head(cols)>> ELSE <<>>) \o Pick(Tail(cols), S)

\* a store written by an older version: tasks with the base columns and the new
\* columns S, one row, and no notes table
LegacyDb(S) ==
    LET cols == BaseColumns \o Pick(NewColumns, S)
    IN [tables |-> {"tasks"}, task_columns |-> cols, tasks |-> <<LegacyRow(cols)>>,
        task_seq |-> 1, notes |-> <<>>, note_seq |-> 0]

(***************************************************************************)
(* Specifications.                                                         *)
(***************************************************************************)
\* the bot after construction, on a new database file and with no note file
Init ==
    /\ notebook = NoFile
    /\ clock = 1
    /\ call = [op |-> "init"]
    /\ history = <<>>
    /\ history_timestamp = None
    /\ last_set = None
    /\ db = FreshDb
    /\ conn = EmptyDb
    /\ columns = <<>>
    /\ boot = "up"
    /\ boots = 1
    /\ audit = <<>>
    /\ turns = [t \in Turns |-> IdleTurn]

\* the tools of the bot on its SQLite store
Next ==
    \/ \E q \in Queries(clock) : QueryTaskDatabase(q[1], q[2], q[3])
    \/ \E text \in WriteTexts, category \in WriteCategories, timestamp \in WriteTimestamps :
           WriteNotesToNotebook(text, category, timestamp)

Spec == Init /\ [][Next]_vars

\* the task store: tasks are added, completed and listed
NextTasks ==
    \/ \E q \in TaskQueries(clock) : QueryTaskDatabase(q[1], q[2], q[3])
    \/ \E openable \in BOOLEAN : FetchPendingTasks(openable)

SpecTasks == Init /\ [][NextTasks]_vars

\* the notes table: notes are written and read
NextReads ==
    \/ \E w \in NoteWrites : WriteNotesToNotebook(w[1], w[2], w[3])
    \/ \E r \in NoteReads : ReadNotesFromNotebook(r[1], r[2], r[3], r[4])
    \/ \E openable \in BOOLEAN : ReadNotes(openable)

SpecReads == Init /\ [][NextReads]_vars

\* add_note on the markdown note file
NextNotes == \E text \in NoteTexts : AddNote(text)

SpecNotes == Init /\ [][NextNotes]_vars

\* add_note on a note file that may become unreadable or unwritable
NextNoteFile ==
    \/ \E text \in FileTexts : AddNote(text)
    \/ \E a \in Accesses : SetAccess(a[1], a[2])

SpecNoteFile == Init /\ [][NextNoteFile]_vars

\* the history cache
NextHistory ==
    \/ \E h \in Histories : SetHistory(h)
    \/ GetHistory
    \/ ClearChat
    \/ \E d \in TickSteps : Tick(d)

SpecHistory == Init /\ [][NextHistory]_vars

\* the task store with queries that fail, and the priming text
NextDigest ==
    \/ \E q \in Queries(clock) : QueryTaskDatabase(q[1], q[2], q[3])
    \/ \E openable \in BOOLEAN : FetchPendingTasks(openable)

SpecDigest == Init /\ [][NextDigest]_vars

\* message turns on one bot: the handlers of two events, the clear-chat action
\* and the passing of time
NextTurns ==
    \/ \E t \in Turns : TurnStart(t)
    \/ \E t \in Turns : TurnTool(t)
    \/ \E t \in Turns : TurnComplete(t)
    \/ \E t \in Turns : TurnAbort(t)
    \/ ClearChat
    \/ \E d \in TurnTicks : Tick(d)

SpecTurns == Init /\ [][NextTurns]_vars

\* the text functions of notes_utils on their own
NextText ==
    \/ \E text1, text2 \in SimilarityTexts : CalculateSimilarity(text1, text2)
    \/ \E text \in ClassifierTexts : ExtractCategory(text)

SpecText == Init /\ [][NextText]_vars

\* the process is not running; the database file is absent or an older store
InitSchema ==
    /\ notebook = NoFile
    /\ clock = 1
    /\ call = [op |-> "init"]
    /\ history = <<>>
    /\ history_timestamp = None
    /\ last_set = None
    /\ db \in {EmptyDb} \cup {LegacyDb(S) : S \in SUBSET Range(NewColumns)}
    /\ conn = EmptyDb
    /\ columns = <<>>
    /\ boot = "down"
    /\ boots = 0
    /\ audit = <<>>
    /\ turns = [t \in Turns |-> IdleTurn]

NextSchema ==
    \/ Start
    \/ InitCreateTasks
    \/ InitCreateNotes
    \/ InitCommit
    \/ InitPragma
    \/ \E c \in Range(NewColumns) : InitAlter(c)
    \/ \E c \in Range(NewColumns) : InitCommitColumn(c)
    \/ InitClose
    \/ Crash
    \/ Stop
    \/ QueryTaskDatabase(SqlInsertTask, <<<<"Pay rent">>, <<clock>>>>, TRUE)

SpecSchema == InitSchema /\ [][NextSchema]_vars

(***************************************************************************)
(* Properties.                                                             *)
(***************************************************************************)
\* the notes in the store: the payload of the note file and the rows of notes
Cleaned(text) == extract_category_from_text(text).content

\* Jaccard similarity of two contents strictly above 0.8
NearDuplicate(content1, content2) ==
    LET A == Tokens(content1)
        B == Tokens(content2)
    IN 10 * Cardinality(A \cap B) > 8 * Cardinality(A \cup B)

\* Jaccard similarity of two contents in (0.5, 0.8]
InMergeRange(content1, content2) ==
    LET A == Tokens(content1)
        B == Tokens(content2)
    IN /\ 10 * Cardinality(A \cap B) > 5 * Cardinality(A \cup B)
       /\ 10 * Cardinality(A \cap B) <= 8 * Cardinality(A \cup B)

MergeSeparator == "\n\nAdditionally: "

\* a content that a merge produced
IsMerged(content) == Contains(content, MergeSeparator)

\* C1: a note write whose cleaned content is a near-duplicate (similarity > 0.8)
\* of some stored note is rejected and leaves the store unchanged, for add_note
\* on the note file and for write_notes_to_notebook on the notes table.
C1_NearDuplicateRejected ==
    [][/\ (/\ call'.op = "add_note"
           /\ \E i \in DOMAIN notebook.payload :
                  NearDuplicate(notebook.payload[i].content, Cleaned(call'.text)))
          => (~call'.ok /\ notebook' = notebook)
       /\ (/\ call'.op = "write_notes_to_notebook"
           /\ \E i \in DOMAIN db.notes :
                  NearDuplicate(db.notes[i].content, Cleaned(call'.text)))
          => (db'.notes = db.notes /\ call'.ret # MsgAdded(call'.category))]_vars

Triggers(note, cand) ==
    \/ NearDuplicate(note.content, cand.content)
    \/ (InMergeRange(note.content, cand.content) /\ note.category = cand.category)

C3_NoTwoNearDuplicates ==
    /\ \A i, j \in DOMAIN notebook.payload :
           (i # j /\ NearDuplicate(notebook.payload[i].content, notebook.payload[j].content))
           => (IsMerged(notebook.payload[i].content) \/ IsMerged(notebook.payload[j].content))
    /\ \A i, j \in DOMAIN db.notes :
           (i # j /\ NearDuplicate(db.notes[i].content, db.notes[j].content))
           => (IsMerged(db.notes[i].content) \/ IsMerged(db.notes[j].content))

\* C4: writing "Task completed: finish report" is rejected with the message that
\* points to the task store, and the store is unchanged.
C4_TaskNoteRejected ==
    [][/\ (call'.op = "add_note" /\ call'.text = "Task completed: finish report")
          => (~call'.ok /\ call'.msg = MsgTaskRelated /\ notebook' = notebook)
       /\ (call'.op = "write_notes_to_notebook"
              /\ call'.text = "Task completed: finish report")
          => (call'.ret = MsgTaskRelated /\ db'.notes = db.notes)]_vars

\* C5: immediately after set_history(M), get_history() returns M; and a
\* get_history() more than 3600 s after the last set_history returns [].
C5_HistoryRoundTrip ==
    [][/\ (call.op = "set_history" /\ call'.op = "get_history")
          => call'.ret = call.arg
       /\ (call'.op = "get_history" /\ last_set # None /\ clock - last_set[1] > 3600)
          => call'.ret = <<>>]_vars

\* get_history() has returned [] 3601 s after a set_history
C5_Witness ==
    /\ call.op = "get_history"
    /\ call.ret = <<>>
    /\ last_set # None
    /\ clock - last_set[1] = 3601
    /\ history_timestamp = None

\* C6: get_history() returns the whole stored history or [], it clears the
\* messages and the stamp together or neither, and up to and including 3600 s
\* after the stamp it returns the whole history and clears nothing.
C6_AtomicExpiry ==
    [][call'.op = "get_history" =>
         /\ call'.ret \in {history, <<>>}
         /\ call'.ret = history'
         /\ \/ (history' = history /\ history_timestamp' = history_timestamp)
            \/ (history' = <<>> /\ history_timestamp' = None)
         /\ (history_timestamp # None /\ clock - history_timestamp[1] <= 3600)
            => /\ call'.ret = history
               /\ history' = history
               /\ history_timestamp' = history_timestamp]_vars

\* get_history() has returned a non-empty history exactly 3600 s after its stamp
C6_Witness ==
    /\ call.op = "get_history"
    /\ history_timestamp # None
    /\ clock - history_timestamp[1] = 3600
    /\ history # <<>>
    /\ call.ret = history

\* C7: once init_db has completed on a store, no statement of a later run of
\* init_db changes the tables, the columns or a row of it.
C7_InitDbIdempotent == [][(boots >= 1 /\ boot \in InitSteps) => db' = db]_vars

\* a second run of init_db has completed on a store that holds two rows
C7_Witness ==
    /\ boots = 2
    /\ boot = "up"
    /\ Len(db.tasks) >= 2

\* the columns and rows of d are still in e
Kept(d, e) ==
    /\ d.tables \subseteq e.tables
    /\ Range(d.task_columns) \subseteq Range(e.task_columns)
    /\ Len(d.tasks) <= Len(e.tasks)
    /\ \A i \in DOMAIN d.tasks : \A c \in DOMAIN d.tasks[i] :
           c \in DOMAIN e.tasks[i] /\ e.tasks[i][c] = d.tasks[i][c]

\* on disk the tasks table has the base columns and, besides, only columns among
\* due, tags, recurrence, points, and every row has a cell for each column
ValidSchema ==
    "tasks" \in db.tables =>
        /\ Range(BaseColumns) \subseteq Range(db.task_columns)
        /\ Range(db.task_columns) \subseteq Range(BaseColumns) \cup Range(NewColumns)
        /\ \A i \in DOMAIN db.tasks : DOMAIN db.tasks[i] = Range(db.task_columns)

\* inside init_db, what is on disk is at most one column behind the connection
CommittedAfterEach ==
    (boot \in InitSteps /\ "tasks" \in db.tables)
        => Len(conn.task_columns) <= Len(db.task_columns) + 1

\* when init_db has completed, both tables and all four columns are there
FullyMigrated ==
    boot = "up" =>
        /\ {"tasks", "notes"} \subseteq db.tables
        /\ Range(NewColumns) \subseteq Range(db.task_columns)

\* a statement of init_db, or a crash in it, removes no column and no row and
\* adds at most one column to an existing tasks table
AdditiveStep ==
    boot \in InitSteps =>
        /\ Kept(db, db')
        /\ "tasks" \in db.tables => Len(db'.task_columns) <= Len(db.task_columns) + 1

\* C8: init_db migrates an older tasks table one column at a time, committing
\* after each: at every point, also after a crash, the table on disk has the
\* base columns plus some of the new ones, no statement removes a column or a
\* row, and a run of init_db that completes leaves all four columns.
C8_CrashSafeMigration ==
    [](ValidSchema /\ CommittedAfterEach /\ FullyMigrated) /\ [][AdditiveStep]_vars

\* init_db crashed after it added tags to the row of an older store and before
\* it added points
C8_Witness ==
    /\ call.op = "crash"
    /\ boot = "down"
    /\ Len(db.tasks) >= 1
    /\ "tags" \in DOMAIN db.tasks[1]
    /\ db.tasks[1]["tags"] = <<"">>
    /\ db.tasks[1]["description"] = <<"Old task">>
    /\ "points" \notin Range(db.task_columns)

\* whether the storage engine rejects this call of query_task_database
Rejected(c) ==
    \/ ~c.openable
    \/ c.query = SqlInvalid
    \/ (c.query = SqlInsertTask /\ c.params[1] = NULL)

\* the message of the engine for a rejected call
EngineSays(c) ==
    IF ~c.openable THEN "unable to open database file"
    ELSE IF c.query = SqlInvalid THEN "syntax error"
    ELSE "NOT NULL constraint failed"

\* C9: for a query the engine rejects (malformed SQL, constraint violation,
\* database that cannot be opened) query_task_database raises nothing and returns
\* a string that begins "Error executing query" and holds the engine's message.
C9_QueryErrorsReturned ==
    (call.op = "query_task_database" /\ Rejected(call))
    => /\ call.raised = None
       /\ Len(call.ret) >= 21
       /\ SubSeq(call.ret, 1, 21) = "Error executing query"
       /\ Contains(call.ret, EngineSays(call))

\* an INSERT without a description came back as an error string
C9_Witness ==
    /\ call.op = "query_task_database"
    /\ call.query = SqlInsertTask
    /\ call.params[1] = NULL
    /\ call.ret = "Error executing query: NOT NULL constraint failed: tasks.description"

\* C10: the audit log only grows, and every query_db call appends exactly one
\* entry with the query text and the parameters, also when the execution fails.
C10_AuditBeforeExecute ==
    [][/\ Len(audit') >= Len(audit)
       /\ SubSeq(audit', 1, Len(audit)) = audit
       /\ call'.op = "query_task_database"
          => audit' = Append(audit, [query |-> call'.query, params |-> call'.params])
       /\ (call'.op = "write_notes_to_notebook" /\ Strip(call'.text) # "")
          => /\ Len(audit') = Len(audit) + 1
             /\ audit'[Len(audit')].query = SqlInsertNote
             /\ audit'[Len(audit')].params[1] = <<call'.text>>
             /\ audit'[Len(audit')].params[2] = <<call'.category>>
       /\ (call'.op = "write_notes_to_notebook" /\ Strip(call'.text) = "")
          => audit' = audit]_vars

\* a query that failed is the last entry of the audit log
C10_Witness ==
    /\ call.op = "query_task_database"
    /\ call.query = SqlInvalid
    /\ call.ret = "Error executing query: near \"INVALID\": syntax error"
    /\ Len(audit) >= 2
    /\ audit[Len(audit)] = [query |-> SqlInvalid, params |-> <<>>]

\* the row of the pending-task query for the task t
PendingRow(t) ==
    RowStr(<<t["id"], t["description"], t["time_added"], t["due"], t["tags"],
             t["recurrence"]>>, {1, 3})

\* C11: a task is listed by the pending-task query exactly while its
\* time_complete is NULL: an added task has NULL time_complete and the given
\* description, due and tags; completing it sets time_complete and changes no
\* other task; a set time_complete is never cleared; and the query (and the
\* priming text built from it) lists the row of a task iff it is not completed.
C11_PendingVisibility ==
    [][/\ \A i \in DOMAIN db.tasks :
              /\ i \in DOMAIN db'.tasks
              /\ db.tasks[i]["time_complete"] # NULL
                 => db'.tasks[i]["time_complete"] # NULL
       /\ (call'.op = "query_task_database" /\ call'.query = SqlInsertTaskDue)
          => /\ Len(db'.tasks) = Len(db.tasks) + 1
             /\ LET t == db'.tasks[Len(db'.tasks)]
                IN /\ t["time_complete"] = NULL
                   /\ t["description"] = call'.params[1]
                   /\ t["due"] = call'.params[3]
                   /\ t["tags"] = call'.params[4]
                   /\ \A i \in DOMAIN db.tasks : t["id"] # db.tasks[i]["id"]
       /\ (call'.op = "query_task_database" /\ call'.query = SqlCompleteTask)
          => \A i \in DOMAIN db.tasks :
                 IF db.tasks[i]["id"] = call'.params[2]
                 THEN db'.tasks[i]["time_complete"] = call'.params[1]
                 ELSE db'.tasks[i] = db.tasks[i]
       /\ ((call'.op = "query_task_database" /\ call'.query = SqlPendingTasks)
              \/ (call'.op = "fetch_pending_tasks" /\ call'.openable))
          => /\ db' = db
             /\ \A i \in DOMAIN db.tasks :
                    Contains(call'.ret, PendingRow(db.tasks[i]))
                        <=> db.tasks[i]["time_complete"] = NULL]_vars

\* "Pay rent" was added and completed, another task is pending, and the pending
\* query lists that one only
C11_Witness ==
    /\ call.op = "query_task_database"
    /\ call.query = SqlPendingTasks
    /\ Len(db.tasks) = 2
    /\ db.tasks[1]["description"] = <<"Pay rent">>
    /\ db.tasks[1]["due"] = <<"2025-01-01">>
    /\ db.tasks[1]["time_complete"] # NULL
    /\ db.tasks[2]["time_complete"] = NULL
    /\ call.ret = PendingRow(db.tasks[2])

\* whether a stored note passes the filters of a read at time now, reading
\* "contains" as: the substring occurs in the content
Matches(note, category, content_contains, days_ago, now) ==
    /\ Given(category) => note.category = category[1]
    /\ Given(content_contains) => Contains(note.content, content_contains[1])
    /\ GivenDays(days_ago) => note.timestamp >= now - days_ago[1] * Day

\* C12: read_notes_from_notebook(category, content_contains, days_ago) returns
\* exactly the stored notes that pass all the given filters: a content is in
\* the returned text iff a stored note with that content has the category,
\* contains the substring and is not older than days_ago days.
C12_ReadFiltersConjunctive ==
    [][(call'.op = "read_notes_from_notebook" /\ call'.openable) =>
         \A i \in DOMAIN db.notes :
             Contains(call'.ret, "] " \o db.notes[i].content \o "\n")
                 <=> \E j \in DOMAIN db.notes :
                         /\ db.notes[j].content = db.notes[i].content
                         /\ Matches(db.notes[j], call'.category, call'.content_contains,
                                    call'.days_ago, clock)]_vars

\* the groups of the rows that the last logged query selects
ReadGroups(log, d) == GroupRows(SelectNotes(d, log[Len(log)].query, log[Len(log)].params))

\* groups of one category each, most recent first within and across the groups
MostRecentFirst(groups) ==
    /\ \A k \in DOMAIN groups :
           /\ groups[k].items # <<>>
           /\ \A i \in DOMAIN groups[k].items :
                  /\ groups[k].items[i][2][1] = groups[k].category
                  /\ \A j \in DOMAIN groups[k].items :
                         i < j => groups[k].items[i][3][1] >= groups[k].items[j][3][1]
    /\ \A k, l \in DOMAIN groups :
           k < l => /\ groups[k].category # groups[l].category
                    /\ groups[k].items[1][3][1] >= groups[l].items[1][3][1]

\* whether text ends with tail
EndsWith(text, tail) ==
    /\ Len(tail) <= Len(text)
    /\ SubSeq(text, Len(text) - Len(tail) + 1, Len(text)) = tail

\* C13: the text a note read returns (read_notes_from_notebook, and read_notes
\* for the system prompt) lists the selected notes in groups of one category
\* each, in descending timestamp order within a group, and the groups in
\* descending order of their most recent note.
C13_GroupedMostRecentFirst ==
    [][/\ (/\ call'.op = "read_notes_from_notebook"
           /\ Len(call'.ret) >= 5 /\ SubSeq(call'.ret, 1, 5) = "Notes")
          => \A groups \in {ReadGroups(audit', db)} :
                 /\ MostRecentFirst(groups)
                 /\ EndsWith(call'.ret, ":\n\n" \o FormatGroups(groups, TRUE))
       /\ (/\ call'.op = "read_notes"
           /\ Len(call'.ret) >= 5 /\ SubSeq(call'.ret, 1, 5) = "Notes")
          => \A groups \in {ReadGroups(audit', db)} :
                 /\ MostRecentFirst(groups)
                 /\ EndsWith(call'.ret, ":\n\n" \o FormatGroups(groups, FALSE))]_vars

\* a read has returned three notes in two groups: the newest note's group first
\* with its two notes, the older of them older than the note of the second group
C13_Witness ==
    /\ call.op = "read_notes_from_notebook"
    /\ Len(db.notes) = 3
    /\ call.ret = "Notes:\n\n### Schedule\n- [0] Morning run\n- [-2] Morning run\n\n"
                      \o "### Preference\n- [0] User prefers morning meetings\n\n"

C15_CodecRoundTrip ==
    (notebook.exists /\ notebook.readable) =>
        LET loaded == load_notes(notebook, clock)
        IN /\ Len(loaded) = Len(notebook.payload)
           /\ \A i \in DOMAIN loaded :
                  /\ loaded[i].category = notebook.payload[i].category
                  /\ loaded[i].content = notebook.payload[i].content
                  /\ loaded[i].timestamp = notebook.payload[i].timestamp

\* whether load_notes fails on this file
LoadFails(file) == file.exists /\ (~file.readable \/ ~PayloadParses(file.payload))

\* C16: when loading or saving the note file fails during add_note, add_note
\* does not return success.
C16_FileErrorsSurfaced ==
    [][(call'.op = "add_note" /\ (LoadFails(notebook) \/ ~notebook.writable))
          => ~call'.ok]_vars

\* C17: every note stored before an add_note is stored after it, with its
\* category and timestamp, and with its content or a merge that extends it.
C17_NotesNeverDeleted ==
    [][call'.op = "add_note" =>
         \A i \in DOMAIN notebook.payload :
             \E j \in DOMAIN notebook'.payload :
                 LET old == notebook.payload[i]
                     new == notebook'.payload[j]
                 IN /\ new.category = old.category
                    /\ new.timestamp = old.timestamp
                    /\ \/ new.content = old.content
                       \/ /\ Len(new.content) > Len(old.content) + Len(MergeSeparator)
                          /\ SubSeq(new.content, 1, Len(old.content) + Len(MergeSeparator))
                                 = old.content \o MergeSeparator]_vars

\* C18: every stored note, in the note file and in the notes table, has a
\* non-empty content and a non-empty category.
C18_NotesWellFormed ==
    /\ \A i \in DOMAIN notebook.payload :
           notebook.payload[i].content # "" /\ notebook.payload[i].category # ""
    /\ \A i \in DOMAIN db.notes :
           db.notes[i].content # "" /\ db.notes[i].category # ""

\* C19: for a text that is_task_related accepts, add_note returns (False, the
\* task-database message) and the note file is exactly as before: not created,
\* not rewritten.
C19_TaskTextRejectedFirst ==
    [][(call'.op = "add_note" /\ is_task_related(call'.text))
          => /\ ~call'.ok
             /\ call'.msg = MsgTaskRelated
             /\ notebook' = notebook]_vars

\* a task-related text was rejected while the file holds a payload that
\* load_notes cannot parse: the file was not rewritten
C19_Witness ==
    /\ call.op = "add_note"
    /\ is_task_related(call.text)
    /\ call.msg = MsgTaskRelated
    /\ notebook.exists
    /\ Len(notebook.payload) >= 1
    /\ ~PayloadParses(notebook.payload)

\* C20: for a text that is not task-related, the first STORED note that
\* triggers Reject or Merge decides: Reject leaves the file unchanged, Merge
\* extends that note, and with no stored note triggering the candidate is
\* appended after the stored notes.
C20_FirstStoredMatchWins ==
    [][(call'.op = "add_note" /\ ~is_task_related(call'.text)) =>
         LET stored == notebook.payload
             cand == extract_category_from_text(call'.text)
             first(i) == /\ Triggers(stored[i], cand)
                         /\ \A j \in 1..(i - 1) : ~Triggers(stored[j], cand)
         IN /\ \A i \in DOMAIN stored :
                   (first(i) /\ NearDuplicate(stored[i].content, cand.content))
                   => (~call'.ok /\ call'.msg = MsgDuplicate /\ notebook' = notebook)
            /\ \A i \in DOMAIN stored :
                   (first(i) /\ ~NearDuplicate(stored[i].content, cand.content))
                   => /\ call'.msg = MsgMerged
                      /\ notebook'.payload =
                             [stored EXCEPT ![i].content =
                                 @ \o MergeSeparator \o cand.content]
            /\ (\A i \in DOMAIN stored : ~Triggers(stored[i], cand))
                   => /\ call'.msg = MsgAdded(cand.category)
                      /\ notebook'.payload =
                             Append(stored, [category |-> cand.category,
                                             content |-> cand.content,
                                             timestamp |-> clock])]_vars

\* the Jaccard ratio of the token sets, in 0..1, the same for both orders of the
\* arguments, and 0 for two texts without tokens
JaccardOf(c) ==
    LET A == Tokens(c.text1)
        B == Tokens(c.text2)
    IN /\ c.ret[2] > 0
       /\ 0 <= c.ret[1]
       /\ c.ret[1] <= c.ret[2]
       /\ c.ret[1] * Cardinality(A \cup B) = Cardinality(A \cap B) * c.ret[2]
       /\ calculate_similarity(c.text2, c.text1) = c.ret
       /\ (A = {} /\ B = {}) => c.ret[1] = 0

LabelEnds(s) ==
    {e \in 2..(Len(s) - 1) :
        /\ Char(s, 1) = "["
        /\ \A i \in 2..e : IsLetter(Char(s, i)) \/ Char(s, i) = " "
        /\ Char(s, e + 1) = "]"}

\* whether the lower-cased text contains one of the words
HasWord(text, words) == \E w \in words : Contains(Lower(text), w)

\* C22: for a text without a leading bracketed label the category is
\* "Preference" if it contains prefer, like, dislike, want or need in any case,
\* else "Schedule" if it contains schedule, every, daily, weekly or monthly,
\* else "Observation"; and the content is the trimmed text.
C22_HeuristicsOrdered ==
    (call.op = "extract_category_from_text" /\ LabelEnds(Strip(call.text)) = {})
    => /\ call.category =
             (IF HasWord(call.text, {"prefer", "like", "dislike", "want", "need"})
              THEN "Preference"
              ELSE IF HasWord(call.text, {"schedule", "every", "daily", "weekly", "monthly"})
              THEN "Schedule"
              ELSE "Observation")
       /\ call.content = Strip(call.text)

\* a text with words of both sets was classified as a Preference
C22_Witness ==
    /\ call.op = "extract_category_from_text"
    /\ call.text = "I like the weekly sync"
    /\ call.category = "Preference"
    /\ call.content = "I like the weekly sync"

\* C23 as stated: for a trimmed text that begins with a bracketed label of
\* letters and spaces followed by content, the category is the label in title
\* case and the content is the trimmed remainder.
C23_LabelVerbatim ==
    call.op = "extract_category_from_text"
    => \A s \in {Strip(call.text)} : \A e \in LabelEnds(s) :
           e + 2 <= Len(s)
           => /\ call.category = Title(SubSeq(s, 2, e))
              /\ call.content = Strip(SubSeq(s, e + 2, Len(s)))

\* C23: for a trimmed text that begins with a bracketed label of letters and
\* spaces followed by content, the category is the trimmed label in title case
\* and the content is the trimmed remainder, whatever keyword the remainder
\* holds.
C23_LabelWins ==
    call.op = "extract_category_from_text"
    => \A s \in {Strip(call.text)} : \A e \in LabelEnds(s) :
           e + 2 <= Len(s)
           => /\ call.category = Title(Strip(SubSeq(s, 2, e)))
              /\ call.content = Strip(SubSeq(s, e + 2, Len(s)))

\* a labelled text with a Preference word in its remainder got its label
C23_Witness ==
    /\ call.op = "extract_category_from_text"
    /\ call.text = "[to do list] I prefer x"
    /\ call.category = "To Do List"
    /\ call.content = "I prefer x"

\* whether short is the beginning of long
IsPrefix(short, long) ==
    /\ Len(short) <= Len(long)
    /\ SubSeq(long, 1, Len(short)) = short

\* C24: the set_history of a completed turn replaces the stored history by the
\* turn's full message list (the history the run was given, then the messages
\* of the run) and sets the stamp to the time of completion: the stamp is not
\* None, and the history is valid for the next 3600 s and no longer.
C24_TurnReplacesHistory ==
    [][call'.op = "turn_complete" =>
         /\ history' = turns[call'.turn].message_history
                           \o turns[call'.turn].new_messages
                           \o <<Msg("reply", call'.turn, turns[call'.turn].count)>>
         /\ history_timestamp' # None
         /\ history_timestamp' = <<clock>>
         /\ get_history(history', history_timestamp', clock + 3600).ret = history'
         /\ get_history(history', history_timestamp', clock + 3601).ret = <<>>]_vars

\* a second turn has completed on the history of the first, after a turn in
\* which more than an hour went by
C24_Witness ==
    /\ call.op = "turn_complete"
    /\ Len(history) = 5
    /\ history_timestamp = <<clock>>
    /\ clock > 3600

\* C25: a turn that is aborted stores nothing: the abort leaves the history
\* and the stamp as they are, and so has every tool call of the turn since its
\* get_history; the abort leaves the store and the audit log as they are, and
\* every note that a tool call of the turn has written is in the store.
C25_AbortedTurnKeepsStore ==
    [][/\ call'.op \in {"turn_tool", "turn_abort"}
          => /\ history' = history
             /\ history_timestamp' = history_timestamp
       /\ call'.op = "turn_abort"
          => /\ db' = db
             /\ audit' = audit
             /\ \A i \in 2..Len(call'.new_messages) :
                    \E n \in DOMAIN db'.notes :
                        db'.notes[n].content = call'.new_messages[i]]_vars

\* a turn was aborted after its tool call had written a note, with the history
\* of an earlier turn stored
C25_Witness ==
    /\ call.op = "turn_abort"
    /\ Len(call.new_messages) = 2
    /\ Len(history) = 2
    /\ history_timestamp # None
    /\ Len(db.notes) = 1
    /\ db.notes[1].content = call.new_messages[2]

\* the tasks of d that are not completed
PendingCount(d) == Cardinality({i \in DOMAIN d.tasks : d.tasks[i]["time_complete"] = NULL})

\* how many rows the call c returns on the database d, when it succeeds
RowsOf(c, d) == IF c.query = SqlPendingTasks THEN PendingCount(d) ELSE 0

\* the newlines of a text
Newlines(text) == Cardinality({i \in 1..Len(text) : Char(text, i) = "\n"})

\* C26: query_task_database returns "" exactly when the query succeeds with
\* zero rows; when it succeeds with n >= 1 rows it returns n lines, one per
\* row; and fetch_pending_tasks returns "" when there is no incomplete task.
C26_EmptyResultEmptyString ==
    [][/\ (call'.op = "query_task_database" /\ call'.raised = None)
          => /\ call'.ret = ""
                    <=> (/\ ~Rejected(call')
                         /\ call'.query # SqlTwoStatements
                         /\ RowsOf(call', db) = 0)
             /\ (~Rejected(call') /\ RowsOf(call', db) >= 1)
                    => /\ Newlines(call'.ret) = RowsOf(call', db) - 1
                       /\ \A i \in DOMAIN db.tasks :
                              db.tasks[i]["time_complete"] = NULL
                              => Contains(call'.ret, PendingRow(db.tasks[i]))
       /\ (call'.op = "fetch_pending_tasks" /\ call'.openable /\ PendingCount(db) = 0)
          => call'.ret = ""]_vars

\* the pending-task query has returned "" on a store whose only task is
\* completed, or two lines on a store with two pending tasks
C26_Witness ==
    /\ call.op = "query_task_database"
    /\ call.query = SqlPendingTasks
    /\ call.openable
    /\ \/ Len(db.tasks) = 1 /\ PendingCount(db) = 0 /\ call.ret = ""
       \/ PendingCount(db) = 2 /\ Newlines(call.ret) = 1

\* C27: the stored history is empty whenever the stamp is None.
C27_NoStampNoHistory == history_timestamp = None => history = <<>>

\* a history that was set has expired on a read: no stamp and no messages
C27_Witness ==
    /\ call.op = "get_history"
    /\ last_set # None
    /\ history_timestamp = None
    /\ history = <<>>
    /\ clock - last_set[1] > 3600

\* C28: a get_history() that does not expire the history returns it and
\* leaves the messages and the stamp unchanged; a stamp that is set is the time
\* of the last set_history; and a get_history() right after a get_history()
\* returns the same.
C28_ReadChangesNothing ==
    [][/\ (/\ call'.op = "get_history"
           /\ ~(history_timestamp # None /\ clock - history_timestamp[1] > 3600))
          => /\ call'.ret = history
             /\ history' = history
             /\ history_timestamp' = history_timestamp
       /\ history_timestamp' # None => history_timestamp' = last_set'
       /\ (call.op = "get_history" /\ call'.op = "get_history" /\ clock' = clock)
          => call'.ret = call.ret]_vars

\* a non-empty history was read some time after it was set and is still
\* stamped with the time it was set
C28_Witness ==
    /\ call.op = "get_history"
    /\ call.ret # <<>>
    /\ history = call.ret
    /\ history_timestamp = last_set
    /\ history_timestamp # None
    /\ clock > history_timestamp[1]

\* C29: an add_note with the text of the add_note just before it leaves the
\* note file as it is, and is rejected as a near-duplicate if the first call
\* was accepted.
C29_RepeatedWriteIdempotent ==
    [][(call.op = "add_note" /\ call'.op = "add_note" /\ call'.text = call.text)
          => /\ notebook' = notebook
             /\ call.ok => (~call'.ok /\ call'.msg = MsgDuplicate)]_vars

\* C30: no turn starts (reads the history) while another turn is between its
\* get_history and its set_history, and the history that a completing turn
\* stores extends the history stored before.
C30_NoLostHistoryUpdate ==
    [][/\ call'.op = "turn_start"
          => \A u \in Turns \ {call'.turn} : turns[u].pc = "idle"
       /\ call'.op = "turn_complete" => IsPrefix(history, history')]_vars

====
